---- MODULE Spec2Model ----
(***************************************************************************)
(* Serval: the process coordinator (MainProcess), the per-tab content      *)
(* process units (ContentProcess.worker.ts) and the message channel        *)
(* between them.                                                           *)
(*                                                                         *)
(* The coordinator runs on one thread: each of its methods, and each       *)
(* dispatch of a worker message or worker error event, is one atomic       *)
(* action.  A unit is a Web Worker: it handles one posted command or one   *)
(* expired timer per action.  Commands travel in a FIFO queue per unit     *)
(* (inbox), events in a FIFO queue per unit (outbox).                      *)
(***************************************************************************)
EXTENDS Integers, Sequences, FiniteSets, TLC

VARIABLES
    tabs,             \* MainProcess.tabs: tabId -> TabInfo
    processes,        \* MainProcess.processes: processId -> ProcessInfo
    messageHandlers,  \* MainProcess.messageHandlers: event type -> handler
    workers,          \* the Worker execution contexts: processId -> unit
    nextProcess,      \* number of process ids generated so far
    budget,           \* inputs (client calls, unit faults) left in a free run
    todo,             \* calls the client makes in this order (a scripted run)
    issued,           \* history: tabId -> commands issued since its createTab
    observed,         \* history: processId -> per navigation, event types seen
    replaced,         \* history: the <<type, handler>> registrations overwritten
    last,             \* history: the step just taken
    bridge,           \* the ServoWebSocketBridge object and its socket
    browser           \* the Browser component: its state and queued updates

vars == <<tabs, processes, messageHandlers, workers, nextProcess, budget, todo,
          issued, observed, replaced, last, bridge, browser>>

----------------------------------------------------------------------------
(* Bounds of the exploration *)

\* inputs of a free run: calls the client makes, and faults of units
MaxInputs == 3

TabIds == {"1", "2"}
HandlerIds == {"h1", "h2"}

SENTINEL == "New Tab"

\* url strings the client navigates to, and those it opens tabs with
Urls == {"", "https://example.com/path", "about:blank", "not a url"}
CreateUrls == {"", "https://example.com/path"}

\* the types of ContentProcessMessage, and a type string outside them
EventTypes == {"ready", "titleChange", "urlChange", "loadStart", "loadComplete",
               "processCrash"}
UNKNOWN == "unknown"

\* type strings a client subscribes under
SubscribedTypes == {"processCrash", "titleChange", UNKNOWN}

----------------------------------------------------------------------------
(* Maps (JavaScript Map) as functions with a growing domain *)

EmptyMap == [x \in {} |-> 0]

MapSet(m, k, v) == [x \in (DOMAIN m) \cup {k} |-> IF x = k THEN v ELSE m[x]]

MapDelete(m, k) == [x \in (DOMAIN m) \ {k} |-> m[x]]

Has(m, k) == k \in DOMAIN m

----------------------------------------------------------------------------
(* URL parsing and title derivation (ContentProcess.extractTitleFromUrl) *)

\* new URL(url) without a base: the result for each string of Urls.
\* A string with no scheme throws; "about:blank" parses with an empty host.
ParseURL(url) ==
    CASE url = "https://example.com/path" -> [ok |-> TRUE, hostname |-> "example.com"]
      [] url = "about:blank"              -> [ok |-> TRUE, hostname |-> ""]
      [] OTHER                            -> [ok |-> FALSE, hostname |-> ""]

\* mutant: the hostname is used as it is, without the fallback
extractTitleFromUrl_NoFallback(url) ==
    LET urlObj == ParseURL(url) IN
    IF urlObj.ok THEN urlObj.hostname ELSE SENTINEL

extractTitleFromUrl(url) ==
    LET urlObj == ParseURL(url) IN
    IF urlObj.ok
        THEN (IF urlObj.hostname # "" THEN urlObj.hostname ELSE SENTINEL)
        ELSE SENTINEL

----------------------------------------------------------------------------
(* Messages *)

\* Commands, coordinator -> unit (MainProcessMessage)
Command(type, tabId, url) == [type |-> type, tabId |-> tabId, url |-> url]

\* Events, unit -> coordinator (ContentProcessMessage).  nav is history: the
\* number of the navigate command the event results from, 0 for any other;
\* src is history: the url whose load produced the event.
Event(type, tabId, url, title, nav, src) ==
    [type |-> type, tabId |-> tabId, url |-> url, title |-> title,
     nav |-> nav, src |-> src]

\* A subscriber handler invocation
Call(h, type, tabId, processId) ==
    [handler |-> h, type |-> type, tabId |-> tabId, processId |-> processId]

\* One run of a method or callback.  threw: an exception left the method;
\* sent: the channel took the posted command.
Step(op, id, pid, arg, noop, calls) ==
    [op |-> op, id |-> id, pid |-> pid, arg |-> arg, noop |-> noop, calls |-> calls,
     threw |-> FALSE, sent |-> TRUE]

----------------------------------------------------------------------------
(* Content process unit (ContentProcess.worker.ts) *)

\* A fresh Worker running `new ContentProcess()`.  owner is history: the tab
\* the coordinator created the worker for.
NewUnit(owner) ==
    [alive |-> TRUE, owner |-> owner,
     tabId |-> "", currentUrl |-> "", history |-> <<>>, historyIndex |-> -1,
     navCount |-> 0,
     inbox |-> <<>>, timers300 |-> <<>>, timers100 |-> <<>>,
     outbox |-> <<>>, errors |-> 0]

\* self.postMessage(message)
sendToMainProcess(u, message) == [u EXCEPT !.outbox = Append(@, message)]

\* setTimeout(..., 300): timers of equal delay expire in the order they were set.
\* log is history: the command that starts the load, then the types of the
\* events emitted for it so far.
simulatePageLoad(u, url, nav, log) ==
    [u EXCEPT !.timers300 = Append(@, [url |-> url, nav |-> nav, log |-> log])]

\* mutant: the entries after the cursor are kept
navigate_NoTruncate(u, url) ==
    IF url = "" THEN u
    ELSE
      LET n  == u.navCount + 1
          u1 == sendToMainProcess(u, Event("loadStart", u.tabId, url, "", n, url))
          h2 == Append(u1.history, url)
          u2 == [u1 EXCEPT !.history = h2,
                           !.historyIndex = Len(h2) - 1,
                           !.currentUrl = url,
                           !.navCount = n]
      IN simulatePageLoad(u2, url, n, <<"navigate", "loadStart">>)

\* mutant: an empty url is navigated to like any other
navigate_AcceptsEmpty(u, url) ==
      LET n  == u.navCount + 1
          u1 == sendToMainProcess(u, Event("loadStart", u.tabId, url, "", n, url))
          h  == IF u1.historyIndex < Len(u1.history) - 1
                    THEN SubSeq(u1.history, 1, u1.historyIndex + 1)
                    ELSE u1.history
          h2 == Append(h, url)
          u2 == [u1 EXCEPT !.history = h2,
                           !.historyIndex = Len(h2) - 1,
                           !.currentUrl = url,
                           !.navCount = n]
      IN simulatePageLoad(u2, url, n, <<"navigate", "loadStart">>)

navigate(u, url) ==
    IF url = "" THEN u
    ELSE
      LET n  == u.navCount + 1
          u1 == sendToMainProcess(u, Event("loadStart", u.tabId, url, "", n, url))
          h  == IF u1.historyIndex < Len(u1.history) - 1
                    THEN SubSeq(u1.history, 1, u1.historyIndex + 1)
                    ELSE u1.history
          h2 == Append(h, url)
          u2 == [u1 EXCEPT !.history = h2,
                           !.historyIndex = Len(h2) - 1,
                           !.currentUrl = url,
                           !.navCount = n]
      IN simulatePageLoad(u2, url, n, <<"navigate", "loadStart">>)

\* mutant: the guard lets back run at the first entry (history[-1] is
\* undefined in JavaScript, the empty url here)
goBack_OffByOne(u) ==
    IF u.historyIndex >= 0
      THEN LET i   == u.historyIndex - 1
               url == IF i >= 0 THEN u.history[i + 1] ELSE ""
               u1  == [u EXCEPT !.historyIndex = i, !.currentUrl = url]
               u2  == sendToMainProcess(u1, Event("urlChange", u.tabId, url, "", 0, url))
           IN simulatePageLoad(u2, url, 0, <<"back", "urlChange">>)
      ELSE u

\* mutant: at the first entry, back reloads the current page
goBack_ReloadsAtStart(u) ==
    IF u.historyIndex > 0
      THEN LET i   == u.historyIndex - 1
               url == u.history[i + 1]
               u1  == [u EXCEPT !.historyIndex = i, !.currentUrl = url]
               u2  == sendToMainProcess(u1, Event("urlChange", u.tabId, url, "", 0, url))
           IN simulatePageLoad(u2, url, 0, <<"back", "urlChange">>)
      ELSE IF u.historyIndex = 0
             THEN simulatePageLoad(u, u.currentUrl, 0, <<"back">>) ELSE u

goBack(u) ==
    IF u.historyIndex > 0
      THEN LET i   == u.historyIndex - 1
               url == u.history[i + 1]
               u1  == [u EXCEPT !.historyIndex = i, !.currentUrl = url]
               u2  == sendToMainProcess(u1, Event("urlChange", u.tabId, url, "", 0, url))
           IN simulatePageLoad(u2, url, 0, <<"back", "urlChange">>)
      ELSE u

goForward(u) ==
    IF u.historyIndex < Len(u.history) - 1
      THEN LET i   == u.historyIndex + 1
               url == u.history[i + 1]
               u1  == [u EXCEPT !.historyIndex = i, !.currentUrl = url]
               u2  == sendToMainProcess(u1, Event("urlChange", u.tabId, url, "", 0, url))
           IN simulatePageLoad(u2, url, 0, <<"forward", "urlChange">>)
      ELSE u

\* mutant: refresh navigates to the current url again
refresh_Renavigates(u) ==
    IF u.currentUrl # "" THEN navigate(u, u.currentUrl) ELSE u

refresh(u) ==
    IF u.currentUrl # "" THEN simulatePageLoad(u, u.currentUrl, 0, <<"refresh">>) ELSE u

\* mutant: loadComplete is sent from the first callback, ahead of the url
onLoadTimer_CompletesEarly(u) ==
    LET t     == Head(u.timers300)
        title == extractTitleFromUrl(t.url)
        u1    == [u EXCEPT !.timers300 = Tail(@)]
        u2    == sendToMainProcess(u1, Event("titleChange", u.tabId, "", title, t.nav, t.url))
        u3    == sendToMainProcess(u2, Event("loadComplete", u.tabId, t.url, "", t.nav, t.url))
    IN [u3 EXCEPT !.timers100 =
            Append(@, [t EXCEPT !.log = @ \o <<"titleChange", "loadComplete">>])]

\* the 300 ms callback of simulatePageLoad, for the oldest pending load
onLoadTimer(u) ==
    LET t     == Head(u.timers300)
        title == extractTitleFromUrl(t.url)
        u1    == [u EXCEPT !.timers300 = Tail(@)]
        u2    == sendToMainProcess(u1, Event("titleChange", u.tabId, "", title, t.nav, t.url))
        u3    == sendToMainProcess(u2, Event("urlChange", u.tabId, t.url, "", t.nav, t.url))
    IN [u3 EXCEPT !.timers100 =
            Append(@, [t EXCEPT !.log = @ \o <<"titleChange", "urlChange">>])]

\* the nested 100 ms callback of simulatePageLoad
onCompleteTimer(u) ==
    LET t  == Head(u.timers100)
        u1 == [u EXCEPT !.timers100 = Tail(@)]
    IN sendToMainProcess(u1, Event("loadComplete", u.tabId, t.url, "", t.nav, t.url))

handleMainProcessMessage(u, message) ==
    CASE message.type = "initialize" ->
            LET u1 == [u EXCEPT !.tabId = message.tabId]
            IN sendToMainProcess(u1, Event("ready", u1.tabId, "", "", 0, ""))
      [] message.type = "navigate" -> navigate(u, message.url)
      [] message.type = "back"     -> goBack(u)
      [] message.type = "forward"  -> goForward(u)
      [] message.type = "refresh"  -> refresh(u)
      [] OTHER -> u

\* worker.terminate(): the execution context stops; queued commands and
\* pending timers are discarded
Terminated(u) ==
    [u EXCEPT !.alive = FALSE, !.inbox = <<>>, !.timers300 = <<>>, !.timers100 = <<>>]

----------------------------------------------------------------------------
(* Process coordinator (MainProcess).  Each method maps the state           *)
(* S = [tabs, processes, messageHandlers, workers, calls] to the state it   *)
(* leaves; calls collects the subscriber handlers the method invoked,       *)
(* thrown tells whether an exception left the method, and postMessageOk is  *)
(* the environment's answer to worker.postMessage during this method: it    *)
(* queues the message, or it throws.                                        *)

Cur ==
    [tabs |-> tabs, processes |-> processes, messageHandlers |-> messageHandlers,
     workers |-> workers, calls |-> <<>>, thrown |-> FALSE, postMessageOk |-> TRUE]

\* mutant: a failing postMessage is not caught
sendToContentProcess_Rethrows(S, processId, message) ==
    IF ~Has(S.processes, processId) \/ ~S.processes[processId].worker
      THEN S
      ELSE IF S.postMessageOk
             THEN [S EXCEPT !.workers[processId].inbox = Append(@, message)]
             ELSE [S EXCEPT !.thrown = TRUE]

\* worker.postMessage(message) behind the registry lookup; what postMessage
\* throws is caught and logged
sendToContentProcess(S, processId, message) ==
    IF ~Has(S.processes, processId) \/ ~S.processes[processId].worker
      THEN S
      ELSE IF S.postMessageOk
             THEN [S EXCEPT !.workers[processId].inbox = Append(@, message)]
             ELSE S

\* mutant: the generated id does not change from one call to the next
newProcessId_Repeats(n) == 1

\* `process-${Date.now()}-${Math.random()...}`: an id that no earlier call
\* produced; n ids were generated before
newProcessId(n) == n + 1

\* mutant: a failed spawn is reported to the processCrash handler
createContentProcess_ReportsFailure(S, processId, tabId, spawnOk) ==
    LET S1 == IF spawnOk
                THEN sendToContentProcess(
                        [S EXCEPT !.workers = MapSet(@, processId, NewUnit(tabId))],
                        processId, Command("initialize", tabId, ""))
                ELSE IF Has(S.messageHandlers, "processCrash")
                       THEN [S EXCEPT !.calls = Append(@,
                                 Call(S.messageHandlers["processCrash"], "processCrash",
                                      tabId, processId))]
                       ELSE S
        processInfo == [id |-> processId,
                        status |-> IF spawnOk THEN "ready" ELSE "crashed",
                        tabId |-> tabId,
                        worker |-> spawnOk]
    IN [S1 EXCEPT !.processes = MapSet(@, processId, processInfo)]

\* new Worker(...) either succeeds (spawnOk) or throws.  The initialize
\* command is sent before the registry entry is stored.
createContentProcess(S, processId, tabId, spawnOk) ==
    LET S1 == IF spawnOk
                THEN sendToContentProcess(
                        [S EXCEPT !.workers = MapSet(@, processId, NewUnit(tabId))],
                        processId, Command("initialize", tabId, ""))
                ELSE S
        processInfo == [id |-> processId,
                        status |-> IF spawnOk THEN "ready" ELSE "crashed",
                        tabId |-> tabId,
                        worker |-> spawnOk]
    IN [S1 EXCEPT !.processes = MapSet(@, processId, processInfo)]

\* mutant: an id already in use keeps its Tab entry's title
createTab_KeepsTitle(S, processId, tabId, url, spawnOk) ==
    LET tab == [id |-> tabId,
                title |-> IF Has(S.tabs, tabId) THEN S.tabs[tabId].title ELSE SENTINEL,
                url |-> url, contentProcessId |-> processId]
        S1  == createContentProcess(S, processId, tabId, spawnOk)
    IN [S1 EXCEPT !.tabs = MapSet(@, tabId, tab)]

createTab(S, processId, tabId, url, spawnOk) ==
    LET tab == [id |-> tabId, title |-> SENTINEL, url |-> url,
                contentProcessId |-> processId]
        S1  == createContentProcess(S, processId, tabId, spawnOk)
    IN [S1 EXCEPT !.tabs = MapSet(@, tabId, tab)]

\* mutant: the url is left for the unit's urlChange event to set
navigateTab_LateUrl(S, tabId, url) ==
    IF ~Has(S.tabs, tabId) THEN S
    ELSE sendToContentProcess(S, S.tabs[tabId].contentProcessId,
                              Command("navigate", tabId, url))

\* mutant: an unknown id is given a Tab entry instead of being ignored
navigateTab_AddsEntry(S, tabId, url) ==
    IF ~Has(S.tabs, tabId)
      THEN [S EXCEPT !.tabs = MapSet(@, tabId,
                [id |-> tabId, title |-> SENTINEL, url |-> url, contentProcessId |-> 0])]
    ELSE LET S1 == [S EXCEPT !.tabs[tabId].url = url]
         IN sendToContentProcess(S1, S1.tabs[tabId].contentProcessId,
                                 Command("navigate", tabId, url))

navigateTab(S, tabId, url) ==
    IF ~Has(S.tabs, tabId) THEN S
    ELSE LET S1 == [S EXCEPT !.tabs[tabId].url = url]
         IN sendToContentProcess(S1, S1.tabs[tabId].contentProcessId,
                                 Command("navigate", tabId, url))

\* mutant: the entry is marked terminated and stays in the registry
terminateContentProcess_KeepsEntry(S, processId) ==
    IF ~Has(S.processes, processId) THEN S
    ELSE LET S1 == IF S.processes[processId].worker
                     THEN [S EXCEPT !.workers[processId] = Terminated(@)]
                     ELSE S
         IN [S1 EXCEPT !.processes[processId].status = "terminated"]

\* mutant: the worker is terminated but its entry is left in the registry
terminateContentProcess_NoDelete(S, processId) ==
    IF ~Has(S.processes, processId) THEN S
    ELSE IF S.processes[processId].worker
           THEN [S EXCEPT !.workers[processId] = Terminated(@)]
           ELSE S

terminateContentProcess(S, processId) ==
    IF ~Has(S.processes, processId) THEN S
    ELSE LET S1 == IF S.processes[processId].worker
                     THEN [S EXCEPT !.workers[processId] = Terminated(@)]
                     ELSE S
         IN [S1 EXCEPT !.processes = MapDelete(@, processId)]

closeTab(S, tabId) ==
    IF ~Has(S.tabs, tabId) THEN S
    ELSE LET S1 == terminateContentProcess(S, S.tabs[tabId].contentProcessId)
         IN [S1 EXCEPT !.tabs = MapDelete(@, tabId)]

\* mutant: every registered unit is marked crashed, not only the faulty one
handleProcessCrash_MarksAll(S, processId) ==
    IF ~Has(S.processes, processId) THEN S
    ELSE LET process == S.processes[processId]
             S1 == [S EXCEPT !.processes =
                        [q \in DOMAIN @ |-> [@[q] EXCEPT !.status = "crashed"]]]
         IN IF Has(S1.messageHandlers, "processCrash") /\ process.tabId # ""
              THEN [S1 EXCEPT !.calls = Append(@,
                        Call(S1.messageHandlers["processCrash"], "processCrash",
                             process.tabId, processId))]
              ELSE S1

\* mutant: the subscriber is told but the registry entry keeps its status
handleProcessCrash_NoMark(S, processId) ==
    IF ~Has(S.processes, processId) THEN S
    ELSE LET process == S.processes[processId]
         IN IF Has(S.messageHandlers, "processCrash") /\ process.tabId # ""
              THEN [S EXCEPT !.calls = Append(@,
                        Call(S.messageHandlers["processCrash"], "processCrash",
                             process.tabId, processId))]
              ELSE S

\* mutant: the crash is recorded but no subscriber is told
handleProcessCrash_Silent(S, processId) ==
    IF ~Has(S.processes, processId) THEN S
    ELSE [S EXCEPT !.processes[processId].status = "crashed"]

\* mutant: the crashed unit's tab is dropped from the Tab map
handleProcessCrash_DropsTab(S, processId) ==
    IF ~Has(S.processes, processId) THEN S
    ELSE LET process == S.processes[processId]
             S1 == [S EXCEPT !.processes[processId].status = "crashed",
                             !.tabs = MapDelete(@, process.tabId)]
         IN IF Has(S1.messageHandlers, "processCrash") /\ process.tabId # ""
              THEN [S1 EXCEPT !.calls = Append(@,
                        Call(S1.messageHandlers["processCrash"], "processCrash",
                             process.tabId, processId))]
              ELSE S1

handleProcessCrash(S, processId) ==
    IF ~Has(S.processes, processId) THEN S
    ELSE LET process == S.processes[processId]
             S1 == [S EXCEPT !.processes[processId].status = "crashed"]
         IN IF Has(S1.messageHandlers, "processCrash") /\ process.tabId # ""
              THEN [S1 EXCEPT !.calls = Append(@,
                        Call(S1.messageHandlers["processCrash"], "processCrash",
                             process.tabId, processId))]
              ELSE S1

\* mutant: a titleChange sets the title of every tab, not only the sender's
handleContentProcessMessage_TitlesAll(S, processId, message) ==
    IF ~Has(S.processes, processId) \/ S.processes[processId].tabId = "" THEN S
    ELSE
      LET tabId == S.processes[processId].tabId IN
      IF ~Has(S.tabs, tabId) THEN S
      ELSE
        LET S1 == CASE message.type = "titleChange" /\ message.title # "" ->
                          [S EXCEPT !.tabs = [id \in DOMAIN @ |->
                                [@[id] EXCEPT !.title = message.title]]]
                    [] message.type = "urlChange" /\ message.url # "" ->
                          [S EXCEPT !.tabs[tabId].url = message.url]
                    [] OTHER -> S
        IN IF Has(S1.messageHandlers, message.type)
             THEN [S1 EXCEPT !.calls = Append(@,
                       Call(S1.messageHandlers[message.type], message.type,
                            message.tabId, 0))]
             ELSE S1

handleContentProcessMessage(S, processId, message) ==
    IF ~Has(S.processes, processId) \/ S.processes[processId].tabId = "" THEN S
    ELSE
      LET tabId == S.processes[processId].tabId IN
      IF ~Has(S.tabs, tabId) THEN S
      ELSE
        LET S1 == CASE message.type = "titleChange" /\ message.title # "" ->
                          [S EXCEPT !.tabs[tabId].title = message.title]
                    [] message.type = "urlChange" /\ message.url # "" ->
                          [S EXCEPT !.tabs[tabId].url = message.url]
                    [] OTHER -> S
        IN IF Has(S1.messageHandlers, message.type)
             THEN [S1 EXCEPT !.calls = Append(@,
                       Call(S1.messageHandlers[message.type], message.type,
                            message.tabId, 0))]
             ELSE S1

\* mutant: a type that has a handler keeps it
onContentProcessMessage_KeepsFirst(S, type, handler) ==
    IF Has(S.messageHandlers, type) THEN S
    ELSE [S EXCEPT !.messageHandlers = MapSet(@, type, handler)]

onContentProcessMessage(S, type, handler) ==
    [S EXCEPT !.messageHandlers = MapSet(@, type, handler)]

offContentProcessMessage(S, type) ==
    [S EXCEPT !.messageHandlers = MapDelete(@, type)]

sendNavigationCommand(S, tabId, command) ==
    IF ~Has(S.tabs, tabId) THEN S
    ELSE sendToContentProcess(S, S.tabs[tabId].contentProcessId,
                              Command(command, tabId, ""))

\* mutant: the workers are terminated but the registry is not cleared
shutdown_KeepsRegistry(S) ==
    [S EXCEPT !.workers = [p \in DOMAIN S.workers |->
                             IF Has(S.processes, p) /\ S.processes[p].worker
                               THEN Terminated(S.workers[p]) ELSE S.workers[p]],
              !.tabs = EmptyMap,
              !.messageHandlers = EmptyMap]

shutdown(S) ==
    [S EXCEPT !.workers = [p \in DOMAIN S.workers |->
                             IF Has(S.processes, p) /\ S.processes[p].worker
                               THEN Terminated(S.workers[p]) ELSE S.workers[p]],
              !.tabs = EmptyMap,
              !.processes = EmptyMap,
              !.messageHandlers = EmptyMap]

----------------------------------------------------------------------------
(* The state machine *)

Pad(o, n) == IF Len(o) >= n THEN o ELSE o \o [i \in 1..(n - Len(o)) |-> <<>>]

\* the coordinator's part of the state after a method returned S; the
\* bridge and the Browser component take no part in it
Apply(S) ==
    /\ tabs' = S.tabs
    /\ processes' = S.processes
    /\ messageHandlers' = S.messageHandlers
    /\ workers' = S.workers
    /\ UNCHANGED <<bridge, browser>>

(* The client of the coordinator.  In a free run it makes calls of its      *)
(* choice and units fault at any time, MaxInputs such inputs in all; in a   *)
(* scripted run it makes the calls of one script in order.  Either way the  *)
(* units and the event dispatch run at any speed in between.                *)

ClientCall(op, id, arg, ok) == [op |-> op, id |-> id, arg |-> arg, ok |-> ok]

\* createTab, navigateTab... on tab "1", as the scripted runs use them
Create(url)  == ClientCall("createTab", "1", url, TRUE)
Nav(url)     == ClientCall("navigateTab", "1", url, TRUE)
Cmd(command) == ClientCall(command, "1", "", TRUE)
Close        == ClientCall("closeTab", "1", "", TRUE)

\* an uncaught error in the unit of process p, and a handler registration
Fault(p)     == ClientCall("fault", ToString(p), "", TRUE)
On(type, h)  == ClientCall("on", h, type, TRUE)

\* a message of no known type, posted from the execution context of process p
Post(p)      == ClientCall("post", ToString(p), UNKNOWN, TRUE)

EX == "https://example.com/path"

NonEmptyHost == {u \in Urls : ParseURL(u).ok /\ ParseURL(u).hostname # ""}

Scripts ==
    \* a tab opened twice under one id, navigated before and after
    {<<Create(""), Nav(v), Create(""), Nav(u)>> :
        v \in {"not a url"}, u \in NonEmptyHost}
    \cup
    {<<Create(""), Nav(v), Create(""), Nav(u1), Nav(u2), Cmd("back")>> :
        v \in {"about:blank"}, u1 \in {EX}, u2 \in {"not a url"}}
    \cup
    \* two navigations, then history traversal
    {<<Create(""), Nav(u1), Nav(u2), Cmd("back"), Cmd(c)>> :
        u1 \in {EX}, u2 \in {EX, "not a url"}, c \in {"forward", "refresh"}}
    \cup
    \* a tab opened twice under one id, then closed twice
    {<<Create(""), Create(""), Close, Close>>}
    \cup
    \* a navigation from the middle of the history; one after a refresh
    {<<Create(""), Nav(EX), Nav("not a url"), Cmd("back"), Nav("about:blank")>>,
     <<Create(""), Nav(EX), Cmd("refresh"), Nav("about:blank")>>}
    \cup
    \* a message of no known type ahead of the events of a navigation
    {<<Create(""), On(UNKNOWN, "h1"), On("titleChange", "h2"), Post(1), Nav(EX)>>}
    \cup
    \* a tab closed and opened again, whose second unit faults
    {<<Create(""), Close, Create(""), Fault(2)>>}
    \cup
    \* a shutdown while a unit's load is under way, then a new start
    {<<Create(""), Nav(EX), ClientCall("shutdown", "", "", TRUE),
       On("titleChange", "h2"), Create("")>>}
    \cup
    \* a tab closed while its unit's load is under way, then opened again
    {<<Create(""), On("titleChange", "h1"), Nav(EX), Close, Create("")>>}
    \cup
    \* a unit faults while another tab's unit has a history
    {<<ClientCall("createTab", "2", "", TRUE), ClientCall("navigateTab", "2", EX, TRUE),
       Create(""), Nav("about:blank"), Fault(2)>>}
    \cup
    \* a handler registered over another one, then events of its type
    {<<Create(""), On(t, "h1"), On("titleChange", "h1"), On(t, "h2"), Nav(EX), Fault(1)>> :
        t \in SubscribedTypes}

Allowed(call) == budget > 0 \/ (todo # <<>> /\ Head(todo) = call)

Consume(call) ==
    IF budget > 0
      THEN budget' = budget - 1 /\ todo' = todo
      ELSE budget' = budget /\ todo' = Tail(todo)

\* ---------------------------------------------------------------------
\* ServoWebSocketBridge (src/src/process/ServoWebSocketBridge.ts)
\*
\* bridge.ws                 this.ws: "null" or "socket"
\* bridge.socket             readyState of the one socket object whose
\*                           handlers are attached: "none" when there is no
\*                           such socket, "CLOSED" when its close event is
\*                           queued and onclose has not run yet
\* bridge.reconnectTimer     a reconnect timeout is pending
\* bridge.connectionAttempts this.connectionAttempts
\* bridge.urlOk              whether `new WebSocket(websocketUrl)` constructs
\*                           (FALSE: it throws, e.g. on a malformed url)
\* bridge.streak             history: attempts since the last successful open
\* bridge.exhausted          history: an attempt that was at least the 10th
\*                           in a row has failed
\* bridge.disconnects        history: number of disconnect() calls
\* ---------------------------------------------------------------------

MaxDisconnects == 2

maxReconnectAttempts == 10

\* connect(): give up at the limit, otherwise count the attempt and construct
\* the socket; a throwing constructor is caught and only logged
connect(b) ==
    IF b.connectionAttempts >= maxReconnectAttempts
    THEN b
    ELSE LET b1 == [b EXCEPT !.connectionAttempts = @ + 1,
                             !.streak = @ + 1]
         IN  IF b.urlOk
             THEN [b1 EXCEPT !.ws = "socket", !.socket = "CONNECTING"]
             ELSE [b1 EXCEPT !.exhausted =
                                 @ \/ b1.streak >= maxReconnectAttempts]

\* the object before its constructor's connect()
newBridge(urlOk) ==
    [ws |-> "null", socket |-> "none", reconnectTimer |-> FALSE,
     connectionAttempts |-> 0, urlOk |-> urlOk,
     streak |-> 0, exhausted |-> FALSE, disconnects |-> 0]

\* ws.onopen: the attempt counter is reset
onopen(b) ==
    [b EXCEPT !.socket = "OPEN", !.connectionAttempts = 0, !.streak = 0]

\* ws.onclose: drop the socket and, below the limit, set the reconnect timer
onclose(b) ==
    [b EXCEPT !.ws = "null",
              !.socket = "none",
              !.reconnectTimer =
                  IF b.connectionAttempts < maxReconnectAttempts
                  THEN TRUE ELSE @,
              !.exhausted = @ \/ b.streak >= maxReconnectAttempts]

\* disconnect(): clear the timer, close and drop the socket (its handlers stay
\* attached, so its close event still runs onclose), reset the counter
disconnect(b) ==
    [b EXCEPT !.reconnectTimer = FALSE,
              !.socket = IF b.ws # "null" /\ @ \in {"CONNECTING", "OPEN"}
                         THEN "CLOSED" ELSE @,
              !.ws = "null",
              !.connectionAttempts = 0,
              !.disconnects = @ + 1]

\* ---------------------------------------------------------------------
\* Browser component (src/src/Browser.tsx)
\*
\* browser.tabs          the tabs state of the last render (ids, in order)
\* browser.activeTabId   the activeTabId state of the last render
\* browser.updates       setTabs updaters queued since the last render
\* browser.pendingActive value of the last setActiveTabId call made by a
\*                       handler since the last render ("" for none)
\* browser.nextId        the next fresh id crypto.randomUUID() returns
\* Handlers are closures of the last render: they read browser.tabs and
\* browser.activeTabId, while updaters receive the state as queued so far.
\* ---------------------------------------------------------------------

MaxNewTabs == 3

MaxPending == 3

newBrowser ==
    [tabs |-> <<"1">>, activeTabId |-> "1", updates |-> <<>>,
     pendingActive |-> "", nextId |-> 2]

handleNewTab(b) ==
    LET newId == ToString(b.nextId)
    IN  [b EXCEPT !.updates = Append(@, [kind |-> "add", id |-> newId,
                                         activeTabId |-> ""]),
                  !.pendingActive = newId,
                  !.nextId = @ + 1]

handleTabClose(b, tabId) ==
    LET b1 == IF Len(b.tabs) = 1 THEN handleNewTab(b) ELSE b
    IN  [b1 EXCEPT !.updates = Append(@, [kind |-> "close", id |-> tabId,
                                          activeTabId |-> b.activeTabId])]

\* prevTabs.findIndex(tab => tab.id === tabId), 0-based, -1 when absent
findIndex(prevTabs, tabId) ==
    IF \E i \in 1..Len(prevTabs) : prevTabs[i] = tabId
    THEN (CHOOSE i \in 1..Len(prevTabs) :
              /\ prevTabs[i] = tabId
              /\ \A j \in 1..(i - 1) : prevTabs[j] # tabId) - 1
    ELSE 0 - 1

\* the queued updaters run in order over the tabs state; a close updater that
\* removes the tab its closure saw as active activates the tab before it
RECURSIVE runUpdates(_, _, _)
runUpdates(updates, prevTabs, active) ==
    IF updates = <<>>
    THEN [tabs |-> prevTabs, activeTabId |-> active]
    ELSE LET u == Head(updates)
             newTabs == SelectSeq(prevTabs, LAMBDA t : t # u.id)
             closedIndex == findIndex(prevTabs, u.id)
             newActiveIndex == IF closedIndex - 1 > 0
                               THEN closedIndex - 1 ELSE 0
         IN  IF u.kind = "add"
             THEN runUpdates(Tail(updates), Append(prevTabs, u.id), active)
             ELSE runUpdates(Tail(updates), newTabs,
                             IF u.id = u.activeTabId /\ Len(newTabs) > 0
                             THEN newTabs[newActiveIndex + 1]
                             ELSE active)

\* a re-render: the queued state updates are applied
render(b) ==
    LET r == runUpdates(b.updates, b.tabs,
                        IF b.pendingActive # "" THEN b.pendingActive
                        ELSE b.activeTabId)
    IN  [b EXCEPT !.tabs = r.tabs, !.activeTabId = r.activeTabId,
                  !.updates = <<>>, !.pendingActive = ""]

\* the bridge after its constructor, which calls connect(); the component
\* as mounted
BridgeInit == bridge \in {connect(newBridge(ok)) : ok \in BOOLEAN}

BrowserInit == browser = newBrowser

Init ==
    /\ tabs = EmptyMap
    /\ processes = EmptyMap
    /\ messageHandlers = EmptyMap
    /\ workers = EmptyMap
    /\ nextProcess = 0
    /\ \/ /\ budget = MaxInputs
          /\ todo = <<>>
       \/ /\ budget = 0
          /\ todo \in Scripts
    /\ issued = EmptyMap
    /\ observed = EmptyMap
    /\ replaced = {}
    /\ last = Step("init", "", 0, "", FALSE, <<>>)
    /\ bridge = newBridge(TRUE)     \* the coordinator constructs no bridge
    /\ browser = newBrowser

CreateTab(tabId, url, spawnOk) ==
    /\ Allowed(ClientCall("createTab", tabId, url, spawnOk))
    /\ LET processId == newProcessId(nextProcess)
           S == createTab(Cur, processId, tabId, url, spawnOk)
       IN /\ Apply(S)
          /\ nextProcess' = processId
          /\ observed' = MapSet(observed, processId, <<>>)
          /\ last' = Step("createTab", tabId, processId, url, FALSE, S.calls)
    /\ Consume(ClientCall("createTab", tabId, url, spawnOk))
    /\ issued' = MapSet(issued, tabId, <<[op |-> "createTab", arg |-> url]>>)
    /\ UNCHANGED replaced

\* the call reaches worker.postMessage: the tab is known and its unit is
\* registered with a worker handle
Posts(tabId) ==
    /\ Has(tabs, tabId)
    /\ Has(processes, tabs[tabId].contentProcessId)
    /\ processes[tabs[tabId].contentProcessId].worker

\* postOk: whether postMessage, if the call reaches it, takes the message
NavigateTab(tabId, url, postOk) ==
    /\ Allowed(ClientCall("navigateTab", tabId, url, postOk))
    /\ postOk \/ Posts(tabId)
    /\ LET S == navigateTab([Cur EXCEPT !.postMessageOk = postOk], tabId, url)
       IN /\ Apply(S)
          /\ last' = [Step("navigateTab", tabId, 0, url, ~Has(tabs, tabId), S.calls)
                         EXCEPT !.threw = S.thrown, !.sent = postOk]
    /\ Consume(ClientCall("navigateTab", tabId, url, postOk))
    /\ issued' = IF Has(tabs, tabId)
                   THEN [issued EXCEPT ![tabId] = Append(@,
                           [op |-> IF postOk THEN "navigateTab" ELSE "rejected",
                            arg |-> url])]
                   ELSE issued
    /\ UNCHANGED <<nextProcess, observed, replaced>>

SendNavigationCommand(tabId, command, postOk) ==
    /\ Allowed(ClientCall(command, tabId, "", postOk))
    /\ postOk \/ Posts(tabId)
    /\ LET S == sendNavigationCommand([Cur EXCEPT !.postMessageOk = postOk], tabId, command)
       IN /\ Apply(S)
          /\ last' = [Step(command, tabId, 0, "", ~Has(tabs, tabId), S.calls)
                         EXCEPT !.threw = S.thrown, !.sent = postOk]
    /\ Consume(ClientCall(command, tabId, "", postOk))
    /\ issued' = IF Has(tabs, tabId)
                   THEN [issued EXCEPT ![tabId] = Append(@,
                           [op |-> IF postOk THEN command ELSE "rejected", arg |-> ""])]
                   ELSE issued
    /\ UNCHANGED <<nextProcess, observed, replaced>>

CloseTab(tabId) ==
    /\ Allowed(ClientCall("closeTab", tabId, "", TRUE))
    /\ LET S == closeTab(Cur, tabId)
       IN /\ Apply(S)
          /\ last' = [Step("closeTab", tabId, 0, "", ~Has(tabs, tabId), S.calls)
                         EXCEPT !.threw = S.thrown]
    /\ Consume(ClientCall("closeTab", tabId, "", TRUE))
    /\ issued' = MapDelete(issued, tabId)
    /\ UNCHANGED <<nextProcess, observed, replaced>>

Shutdown ==
    /\ Allowed(ClientCall("shutdown", "", "", TRUE))
    /\ LET S == shutdown(Cur)
       IN /\ Apply(S)
          /\ last' = Step("shutdown", "", 0, "", FALSE, S.calls)
    /\ Consume(ClientCall("shutdown", "", "", TRUE))
    /\ issued' = EmptyMap
    /\ UNCHANGED <<nextProcess, observed, replaced>>

OnContentProcessMessage(type, handler) ==
    /\ Allowed(ClientCall("on", handler, type, TRUE))
    /\ LET S == onContentProcessMessage(Cur, type, handler)
       IN /\ Apply(S)
          /\ last' = Step("on", handler, 0, type, FALSE, S.calls)
    /\ Consume(ClientCall("on", handler, type, TRUE))
    /\ replaced' = IF Has(messageHandlers, type) /\ messageHandlers[type] # handler
                     THEN replaced \cup {<<type, messageHandlers[type]>>}
                     ELSE replaced
    /\ UNCHANGED <<nextProcess, issued, observed>>

OffContentProcessMessage(type) ==
    /\ Allowed(ClientCall("off", "", type, TRUE))
    /\ Has(messageHandlers, type)
    /\ LET S == offContentProcessMessage(Cur, type)
       IN /\ Apply(S)
          /\ last' = Step("off", "", 0, type, FALSE, S.calls)
    /\ Consume(ClientCall("off", "", type, TRUE))
    /\ UNCHANGED <<nextProcess, issued, observed, replaced>>

\* the worker's message listener runs for the oldest posted command
WorkerReceive(p) ==
    /\ workers[p].alive
    /\ workers[p].inbox # <<>>
    /\ LET message == Head(workers[p].inbox)
           u == [workers[p] EXCEPT !.inbox = Tail(@)]
       IN /\ workers' = [workers EXCEPT ![p] = handleMainProcessMessage(u, message)]
          /\ last' = Step("receive", "", p, message.type,
                          handleMainProcessMessage(u, message) = u, <<>>)
    /\ UNCHANGED <<bridge, browser, tabs, processes, messageHandlers, nextProcess, budget, todo, issued, observed, replaced>>

WorkerLoadTimer(p) ==
    /\ workers[p].alive
    /\ workers[p].timers300 # <<>>
    /\ workers' = [workers EXCEPT ![p] = onLoadTimer(@)]
    /\ last' = Step("timer300", Head(workers[p].timers300).log[1], p,
                    Head(workers[p].timers300).url, FALSE, <<>>)
    /\ UNCHANGED <<bridge, browser, tabs, processes, messageHandlers, nextProcess, budget, todo, issued, observed, replaced>>

WorkerCompleteTimer(p) ==
    /\ workers[p].alive
    /\ workers[p].timers100 # <<>>
    /\ workers' = [workers EXCEPT ![p] = onCompleteTimer(@)]
    /\ last' = Step("timer100", Head(workers[p].timers100).log[1], p,
                    Head(workers[p].timers100).url, FALSE, <<>>)
    /\ UNCHANGED <<bridge, browser, tabs, processes, messageHandlers, nextProcess, budget, todo, issued, observed, replaced>>

\* an uncaught error inside the unit's execution context: an error event is
\* queued for the Worker object on the coordinator's thread
WorkerError(p) ==
    /\ Allowed(Fault(p))
    /\ workers[p].alive
    /\ workers' = [workers EXCEPT ![p].errors = @ + 1]
    /\ Consume(Fault(p))
    /\ last' = Step("fault", "", p, "", FALSE, <<>>)
    /\ UNCHANGED <<bridge, browser, tabs, processes, messageHandlers, nextProcess, issued, observed, replaced>>

\* the worker's context posts a message whose type is none of EventTypes:
\* event.data is not checked against ContentProcessMessage at run time
WorkerPostsUnknown(p) ==
    /\ Allowed(Post(p))
    /\ workers[p].alive
    /\ workers' = [workers EXCEPT ![p] =
                      sendToMainProcess(@, Event(UNKNOWN, workers[p].owner, "", "", 0, ""))]
    /\ Consume(Post(p))
    /\ last' = Step("post", "", p, UNKNOWN, FALSE, <<>>)
    /\ UNCHANGED <<bridge, browser, tabs, processes, messageHandlers, nextProcess, issued, observed, replaced>>

\* worker.onerror
OnError(p) ==
    /\ workers[p].errors > 0
    /\ LET S0 == [Cur EXCEPT !.workers[p].errors = @ - 1]
           S  == handleProcessCrash(S0, p)
       IN /\ Apply(S)
          /\ last' = Step("onerror", "", p, "", ~Has(processes, p), S.calls)
    /\ UNCHANGED <<nextProcess, budget, todo, issued, observed, replaced>>

\* worker.onmessage for the oldest undelivered event
OnMessage(p) ==
    /\ workers[p].outbox # <<>>
    /\ LET message == Head(workers[p].outbox)
           S0 == [Cur EXCEPT !.workers[p].outbox = Tail(@)]
           S  == handleContentProcessMessage(S0, p, message)
       IN /\ Apply(S)
          /\ last' = Step("onmessage", "", p, message.type,
                          S.tabs = tabs, S.calls)
          /\ observed' = IF message.nav > 0
                           THEN [observed EXCEPT ![p] =
                                   [Pad(@, message.nav) EXCEPT ![message.nav] =
                                       Append(@, message.type)]]
                           ELSE observed
    /\ UNCHANGED <<nextProcess, budget, todo, issued, replaced>>

Next ==
    \/ \E tabId \in TabIds, url \in CreateUrls, spawnOk \in BOOLEAN : CreateTab(tabId, url, spawnOk)
    \/ \E tabId \in TabIds, url \in Urls, postOk \in BOOLEAN : NavigateTab(tabId, url, postOk)
    \/ \E tabId \in TabIds, command \in {"back", "forward", "refresh"}, postOk \in BOOLEAN :
           SendNavigationCommand(tabId, command, postOk)
    \/ \E tabId \in TabIds : CloseTab(tabId)
    \/ Shutdown
    \/ \E type \in SubscribedTypes, handler \in HandlerIds : OnContentProcessMessage(type, handler)
    \/ \E type \in SubscribedTypes : OffContentProcessMessage(type)
    \/ \E p \in DOMAIN workers : WorkerReceive(p)
    \/ \E p \in DOMAIN workers : WorkerLoadTimer(p)
    \/ \E p \in DOMAIN workers : WorkerCompleteTimer(p)
    \/ \E p \in DOMAIN workers : WorkerError(p)
    \/ \E p \in DOMAIN workers : WorkerPostsUnknown(p)
    \/ \E p \in DOMAIN workers : OnError(p)
    \/ \E p \in DOMAIN workers : OnMessage(p)

Spec == Init /\ [][Next]_vars

\* ---------------------------------------------------------------------
\* The bridge on its own: the coordinator holds no tab and takes no call
\* ---------------------------------------------------------------------

Idle ==
    /\ tabs = EmptyMap
    /\ processes = EmptyMap
    /\ messageHandlers = EmptyMap
    /\ workers = EmptyMap
    /\ nextProcess = 0
    /\ budget = 0
    /\ todo = <<>>
    /\ issued = EmptyMap
    /\ observed = EmptyMap
    /\ replaced = {}
    /\ last = Step("init", "", 0, "", FALSE, <<>>)

Still ==
    UNCHANGED <<tabs, processes, messageHandlers, workers, nextProcess,
                budget, todo, issued, observed, replaced, last>>

\* the server accepts the connection: the open event runs onopen
SocketOpens ==
    /\ bridge.socket = "CONNECTING"
    /\ bridge' = onopen(bridge)
    /\ UNCHANGED browser
    /\ Still

\* the connection fails or is closed by the peer: a close event is queued
SocketCloses ==
    /\ bridge.socket \in {"CONNECTING", "OPEN"}
    /\ bridge' = [bridge EXCEPT !.socket = "CLOSED"]
    /\ UNCHANGED browser
    /\ Still

\* the queued close event runs onclose
SocketCloseEvent ==
    /\ bridge.socket = "CLOSED"
    /\ bridge' = onclose(bridge)
    /\ UNCHANGED browser
    /\ Still

\* the reconnect timeout fires: connect()
ReconnectTimer ==
    /\ bridge.reconnectTimer
    /\ bridge' = connect([bridge EXCEPT !.reconnectTimer = FALSE])
    /\ UNCHANGED browser
    /\ Still

Disconnect ==
    /\ bridge.disconnects < MaxDisconnects
    /\ bridge' = disconnect(bridge)
    /\ UNCHANGED browser
    /\ Still

BridgeNext ==
    \/ SocketOpens
    \/ SocketCloses
    \/ SocketCloseEvent
    \/ ReconnectTimer
    \/ Disconnect

BridgeSpecInit ==
    /\ Idle
    /\ BridgeInit
    /\ BrowserInit

BridgeSpec == BridgeSpecInit /\ [][BridgeNext]_vars

\* ---------------------------------------------------------------------
\* The Browser component on its own
\* ---------------------------------------------------------------------

\* the new-tab button
NewTab ==
    /\ browser.nextId - 2 < MaxNewTabs
    /\ Len(browser.updates) < MaxPending
    /\ browser' = handleNewTab(browser)
    /\ UNCHANGED bridge
    /\ Still

\* the close button of a tab the last render shows
TabClose(tabId) ==
    /\ \E i \in 1..Len(browser.tabs) : browser.tabs[i] = tabId
    /\ Len(browser.tabs) = 1 => browser.nextId - 2 < MaxNewTabs
    /\ Len(browser.updates) < MaxPending
    /\ browser' = handleTabClose(browser, tabId)
    /\ UNCHANGED bridge
    /\ Still

Render ==
    /\ browser.updates # <<>>
    /\ browser' = render(browser)
    /\ UNCHANGED bridge
    /\ Still

BrowserNext ==
    \/ NewTab
    \/ \E i \in 1..Len(browser.tabs) : TabClose(browser.tabs[i])
    \/ Render

BrowserSpecInit ==
    /\ Idle
    /\ bridge = newBridge(TRUE)
    /\ BrowserInit

BrowserSpec == BrowserSpecInit /\ [][BrowserNext]_vars

----------------------------------------------------------------------------
(* Properties *)

\* the unit named by the tab's contentProcessId
UnitOf(tabId) == tabs[tabId].contentProcessId

\* no command is queued, no timer is pending and no event is undelivered
Quiescent ==
    \A p \in DOMAIN workers :
        /\ workers[p].inbox = <<>>
        /\ workers[p].timers300 = <<>>
        /\ workers[p].timers100 = <<>>
        /\ workers[p].outbox = <<>>

Range(f) == {f[x] : x \in DOMAIN f}

\* C1: right after createTab(tabId, url) returns, getTab(tabId) is a tab
\* titled "New Tab" whose url is the given url -- also when the id was
\* already in use by a tab with another title and url.
C1_CreateTabInitial ==
    last.op = "createTab" =>
        /\ Has(tabs, last.id)
        /\ tabs[last.id].id = last.id
        /\ tabs[last.id].title = SENTINEL
        /\ tabs[last.id].url = last.arg

\* createTab has just replaced a tab whose unit is still registered
C1_Witness ==
    /\ last.op = "createTab"
    /\ last.arg = EX
    /\ \E p \in DOMAIN processes : p # last.pid /\ processes[p].tabId = last.id

\* the observed events of one navigation
Stage(type) ==
    CASE type = "loadStart" -> 1
      [] type \in {"titleChange", "urlChange"} -> 2
      [] type = "loadComplete" -> 3
      [] OTHER -> 0

InOrder(o) ==
    /\ \A i, j \in 1..Len(o) : i < j => (Stage(o[i]) <= Stage(o[j]) /\ o[i] # o[j])
    /\ \A i \in 1..Len(o) : Stage(o[i]) >= 2 => "loadStart" \in {o[j] : j \in 1..(i-1)}
    /\ \A i \in 1..Len(o) :
          Stage(o[i]) = 3 => {"titleChange", "urlChange"} \subseteq {o[j] : j \in 1..(i-1)}

\* C4: the events of one navigate command reach the coordinator as
\* loadStart, then titleChange and urlChange, then loadComplete, whatever
\* events of the unit's other navigations come in between.
C4_EventOrder ==
    \A p \in DOMAIN observed :
        \A n \in 1..Len(observed[p]) : InOrder(observed[p][n])

\* the first navigation is seen up to its urlChange, not yet complete, and
\* the second one's titleChange has already come in
C4_Witness ==
    \E p \in DOMAIN observed :
        /\ Len(observed[p]) >= 2
        /\ observed[p][1] = <<"loadStart", "titleChange", "urlChange">>
        /\ "titleChange" \in Range(observed[p][2])

\* the titleChange events not yet delivered
PendingTitles ==
    {e \in UNION {Range(workers[p].outbox) : p \in DOMAIN workers} :
        e.type = "titleChange"}

\* C5 as amended: a titleChange event carries the hostname of the loaded url
\* when the url parses and its hostname is not empty, and "New Tab" when the
\* url does not parse or parses with an empty hostname.
C5_TitleDerivation ==
    \A e \in PendingTitles :
        LET parsed == ParseURL(e.src) IN
        /\ (parsed.ok /\ parsed.hostname # "") => e.title = parsed.hostname
        /\ (~parsed.ok \/ parsed.hostname = "") => e.title = SENTINEL

\* C5 as stated: the hostname whenever the url parses, "New Tab" whenever
\* it does not.
C5_Original ==
    \A e \in PendingTitles :
        LET parsed == ParseURL(e.src) IN
        /\ parsed.ok => e.title = parsed.hostname
        /\ ~parsed.ok => e.title = SENTINEL

\* a load of "about:blank", which parses with an empty hostname, has emitted
\* its titleChange, and it carries "New Tab"
C5_Witness ==
    \E e \in PendingTitles : e.src = "about:blank" /\ e.title = SENTINEL

\* C6: a back command handled at history index 0 or -1, and a forward
\* command handled at the last index, only consumes the command: nothing is
\* emitted, no timer is set, and history, historyIndex and currentUrl stay.
C6_BoundaryNoop ==
    [][\A p \in DOMAIN workers :
         ( /\ last'.op = "receive"
           /\ last'.pid = p
           /\ \/ last'.arg = "back" /\ workers[p].historyIndex <= 0
              \/ last'.arg = "forward"
                   /\ workers[p].historyIndex = Len(workers[p].history) - 1 )
         => workers'[p] = [workers[p] EXCEPT !.inbox = Tail(@)]
      ]_vars

\* a back command was just handled at index 0 of a non-empty history
C6_Witness ==
    /\ last.op = "receive"
    /\ last.arg = "back"
    /\ last.noop
    /\ workers[last.pid].historyIndex = 0
    /\ workers[last.pid].history # <<>>

\* the commands issued on a tab since it was created, oldest first
IssuedOn(tabId) == issued[tabId]

\* C2: once createTab(id, "") and navigateTab(id, u) have been called, u a
\* url with hostname h, and nothing else is called and no unit has crashed,
\* the state the system comes to rest in has getTab(id).title = h and
\* getTab(id).url = u.
C2_NavigateSettles ==
    \A id \in DOMAIN tabs : \A u \in NonEmptyHost :
        ( /\ IssuedOn(id) = <<[op |-> "createTab", arg |-> ""],
                              [op |-> "navigateTab", arg |-> u]>>
          /\ \A p \in DOMAIN processes : processes[p].status # "crashed"
          /\ Quiescent )
        => /\ tabs[id].title = ParseURL(u).hostname
           /\ tabs[id].url = u

\* C3: once navigateTab(u1), navigateTab(u2) and back have been called on a
\* tab in that order, u1 and u2 not empty, and every event has been
\* ingested, the tab's url is u1.
C3_BackSettles ==
    \A id \in DOMAIN tabs :
        LET s == IssuedOn(id)
            n == Len(s)
        IN ( /\ n >= 3
             /\ s[n].op = "back"
             /\ s[n-1].op = "navigateTab" /\ s[n-1].arg # ""
             /\ s[n-2].op = "navigateTab" /\ s[n-2].arg # ""
             /\ processes[UnitOf(id)].worker
             /\ Quiescent )
           => tabs[id].url = s[n-2].arg

\* C7: closeTab on an id that has no Tab entry (a second close, or an id
\* never opened) changes neither the Tab map nor the Process Registry, and
\* the registry holds no entry owned by that id.
C7_CloseTabIdempotent ==
    [][(last'.op = "closeTab" /\ last'.noop) =>
          /\ tabs' = tabs
          /\ processes' = processes
          /\ \A p \in DOMAIN processes' : processes'[p].tabId # last'.id
      ]_vars

\* C8: after closeTab on a live tab, the Tab map has no entry for the id,
\* the Process Registry has no entry owned by the id, and every unit that
\* was created for the id is terminated.
C8_CloseTabRemovesAll ==
    (last.op = "closeTab" /\ ~last.noop) =>
        /\ ~Has(tabs, last.id)
        /\ \A p \in DOMAIN processes : processes[p].tabId # last.id
        /\ \A p \in DOMAIN workers : workers[p].owner = last.id => ~workers[p].alive

\* C9: with a processCrash handler registered, each error event of a
\* registered unit invokes that handler exactly once, with the id of the tab
\* the unit was created for and the unit's process id; no other step
\* invokes a handler with a processCrash event.
C9_CrashReportedOnce ==
    /\ (last.op = "onerror" /\ ~last.noop /\ Has(messageHandlers, "processCrash")) =>
          last.calls = <<Call(messageHandlers["processCrash"], "processCrash",
                              workers[last.pid].owner, last.pid)>>
    /\ last.op # "onerror" =>
          \A i \in 1..Len(last.calls) : last.calls[i].type # "processCrash"

\* the error of a live tab's unit has just been reported to the handler
C9_Witness ==
    /\ last.op = "onerror"
    /\ Len(last.calls) = 1
    /\ Has(tabs, last.calls[1].tabId)
    /\ UnitOf(last.calls[1].tabId) = last.pid

\* C10: handling a unit's error leaves the Tab map as it was, and a Tab
\* entry leaves the map only in closeTab for its id or in shutdown.
C10_CrashKeepsTabs ==
    [][ /\ last'.op = "onerror" => tabs' = tabs
        /\ \A id \in DOMAIN tabs :
              ~Has(tabs', id) =>
                  \/ last'.op = "closeTab" /\ last'.id = id
                  \/ last'.op = "shutdown"
      ]_vars

\* a unit has just been marked crashed and its tab is still in the Tab map,
\* naming that unit
C10_Witness ==
    /\ last.op = "onerror"
    /\ ~last.noop
    /\ processes[last.pid].status = "crashed"
    /\ Has(tabs, processes[last.pid].tabId)
    /\ UnitOf(processes[last.pid].tabId) = last.pid
    /\ tabs[processes[last.pid].tabId].title # SENTINEL

\* the command a client call posts
CommandOf(step) ==
    Command(IF step.op = "navigateTab" THEN "navigate" ELSE step.op, step.id, step.arg)

\* C11: handling the error of a registered unit sets its registry entry to
\* crashed; a crashed entry stays crashed for as long as it is registered
\* and leaves the registry only in closeTab or shutdown; a unit is spawned
\* only by createTab; and a command reaches a unit's queue only in the
\* client call that issues it, once: nothing is sent again after a crash.
C11_CrashedStaysCrashed ==
    [][ /\ (last'.op = "onerror" /\ ~last'.noop) =>
              processes'[last'.pid].status = "crashed"
        /\ \A p \in DOMAIN processes :
              processes[p].status = "crashed" =>
                  IF Has(processes', p)
                    THEN processes'[p].status = "crashed"
                    ELSE last'.op \in {"closeTab", "shutdown"}
        /\ (DOMAIN workers' # DOMAIN workers \/ DOMAIN processes' \ DOMAIN processes # {})
              => last'.op = "createTab"
        /\ \A q \in DOMAIN workers :
              Len(workers'[q].inbox) > Len(workers[q].inbox) =>
                  /\ last'.op \in {"navigateTab", "back", "forward", "refresh"}
                  /\ workers'[q].inbox = Append(workers[q].inbox, CommandOf(last'))
                  /\ \A r \in DOMAIN workers \ {q} : workers'[r].inbox = workers[r].inbox
      ]_vars

\* a unit's error was handled, and a later navigateTab on its tab found the
\* entry still crashed and posted its command to the same unit
C11_Witness ==
    /\ last.op = "navigateTab"
    /\ ~last.noop
    /\ last.sent
    /\ processes[UnitOf(last.id)].status = "crashed"
    /\ processes[UnitOf(last.id)].worker
    /\ workers[UnitOf(last.id)].inbox = <<CommandOf(last)>>

\* C12: a fault of unit p, and the handling of its error event, leave the
\* Tab map, the handler map, every other unit's registry entry and every
\* other unit's state (history, historyIndex, currentUrl, queues) as they
\* were; the faulty unit's own history, historyIndex and currentUrl stay too.
C12_FaultIsolated ==
    [][ \A p \in DOMAIN workers :
          (last'.op \in {"fault", "onerror"} /\ last'.pid = p) =>
              /\ tabs' = tabs
              /\ messageHandlers' = messageHandlers
              /\ DOMAIN processes' = DOMAIN processes
              /\ \A q \in DOMAIN processes \ {p} : processes'[q] = processes[q]
              /\ DOMAIN workers' = DOMAIN workers
              /\ \A q \in DOMAIN workers \ {p} : workers'[q] = workers[q]
              /\ workers'[p].history = workers[p].history
              /\ workers'[p].historyIndex = workers[p].historyIndex
              /\ workers'[p].currentUrl = workers[p].currentUrl
      ]_vars

\* a unit's error has just been handled while another tab's unit, with a
\* page in its history, is registered and ready
C12_Witness ==
    /\ last.op = "onerror"
    /\ ~last.noop
    /\ processes[last.pid].status = "crashed"
    /\ \E q \in DOMAIN processes :
          /\ q # last.pid
          /\ processes[q].tabId # processes[last.pid].tabId
          /\ processes[q].status = "ready"
          /\ workers[q].history # <<>>
          /\ tabs[processes[q].tabId].title = "example.com"

\* C13: navigateTab, sendNavigationCommand and closeTab return normally
\* whatever the unit's condition -- crashed, never spawned, or refusing the
\* posted message: no exception leaves the call, navigateTab has still set
\* the url, and closeTab has still removed the tab.
C13_CallsNeverThrow ==
    last.op \in {"navigateTab", "back", "forward", "refresh", "closeTab"} =>
        /\ ~last.threw
        /\ (last.op = "navigateTab" /\ ~last.noop) => tabs[last.id].url = last.arg
        /\ last.op = "closeTab" => ~Has(tabs, last.id)

\* navigateTab has just returned on a tab whose unit is marked crashed and
\* whose worker refused the posted command
C13_Witness ==
    /\ last.op = "navigateTab"
    /\ ~last.noop
    /\ ~last.sent
    /\ processes[UnitOf(last.id)].status = "crashed"
    /\ workers[UnitOf(last.id)].inbox = <<>>

\* C14: every unit that createTab spawned for a tab either has the
\* initialize command carrying that tab's id in its queue, or has handled
\* it and recorded the id as its own (after which it replies ready).
C14_InitializeDelivered ==
    \A p \in DOMAIN workers :
        (Has(processes, p) /\ processes[p].worker /\ workers[p].alive) =>
            \/ workers[p].tabId = processes[p].tabId
            \/ \E i \in 1..Len(workers[p].inbox) :
                  workers[p].inbox[i] = Command("initialize", processes[p].tabId, "")

\* C15: the registry entry of a unit createTab has just spawned has status
\* initializing, and an entry is ready only once its unit has answered the
\* initialize command.
C15_InitializingUntilReady ==
    /\ (last.op = "createTab" /\ processes[last.pid].worker) =>
          processes[last.pid].status = "initializing"
    /\ \A p \in DOMAIN processes :
          processes[p].status = "ready" => workers[p].tabId = processes[p].tabId

OwnedBy(tabId) == {p \in DOMAIN processes : processes[p].tabId = tabId}

\* C17: for every tab of the Tab map whose units were all spawned and none
\* of whose units is still initializing, exactly one registry entry is
\* owned by the tab, it is the entry the tab's contentProcessId names, it
\* has a worker handle, and its status is neither crashed nor terminated.
C17_OneLiveUnitPerTab ==
    \A id \in DOMAIN tabs :
        (\A p \in OwnedBy(id) :
            Has(workers, p) /\ processes[p].status # "initializing") =>
            /\ OwnedBy(id) = {UnitOf(id)}
            /\ processes[UnitOf(id)].worker
            /\ processes[UnitOf(id)].status \notin {"crashed", "terminated"}

\* C18: navigateTab and sendNavigationCommand on an id that has no Tab
\* entry leave the Tab map, the Process Registry, the handler map and every
\* unit (so every command queue) as they were, invoke no handler and
\* return normally.
C18_UnknownTabNoop ==
    [][ (last'.op \in {"navigateTab", "back", "forward", "refresh"} /\ last'.noop) =>
            /\ tabs' = tabs
            /\ processes' = processes
            /\ messageHandlers' = messageHandlers
            /\ workers' = workers
            /\ last'.calls = <<>>
            /\ ~last'.threw
      ]_vars

\* navigateTab has just returned for an id with no Tab entry while another
\* tab with a live unit is open and a handler is registered
C18_Witness ==
    /\ last.op = "navigateTab"
    /\ last.noop
    /\ last.arg = EX
    /\ ~Has(tabs, last.id)
    /\ \E id \in DOMAIN tabs : Has(workers, UnitOf(id)) /\ workers[UnitOf(id)].alive
    /\ DOMAIN messageHandlers # {}

\* C19: navigateTab(tabId, url) on a known tab sets that tab's url to the
\* given url within the call, leaves its title and every other tab as they
\* were, invokes no handler, and appends exactly one navigate command
\* carrying tabId and url to the queue of the unit the tab names -- that
\* is, when the unit has a worker handle and the channel takes the message;
\* no other queue changes.
C19_NavigateTabEager ==
    [][ \A id \in DOMAIN tabs :
          (last'.op = "navigateTab" /\ last'.id = id) =>
              /\ tabs' = [tabs EXCEPT ![id].url = last'.arg]
              /\ processes' = processes
              /\ last'.calls = <<>>
              /\ LET p == tabs[id].contentProcessId
                 IN IF processes[p].worker /\ last'.sent
                      THEN workers' = [workers EXCEPT ![p].inbox =
                                          Append(@, Command("navigate", id, last'.arg))]
                      ELSE workers' = workers
      ]_vars

\* navigateTab has just set a new url on a tab that shows the title of the
\* page loaded before, and its command is the only one in the unit's queue
C19_Witness ==
    /\ last.op = "navigateTab"
    /\ ~last.noop
    /\ last.sent
    /\ last.arg = "about:blank"
    /\ tabs[last.id].url = "about:blank"
    /\ tabs[last.id].title = "example.com"
    /\ workers[UnitOf(last.id)].inbox = <<Command("navigate", last.id, "about:blank")>>

\* C20: onContentProcessMessage(t, h) makes h the handler of t and leaves
\* the handlers of the other types; every event that is dispatched (an
\* event of a registered unit whose tab is open, or a handled crash) for a
\* type with a handler invokes the handler registered last for that type,
\* once, and no step invokes any other handler.
C20_SingleHandler ==
    [][ /\ last'.op = "on" =>
              messageHandlers' = MapSet(messageHandlers, last'.arg, last'.id)
        /\ Len(last'.calls) <= 1
        /\ \A i \in 1..Len(last'.calls) :
              /\ Has(messageHandlers, last'.calls[i].type)
              /\ last'.calls[i].handler = messageHandlers[last'.calls[i].type]
        /\ \A p \in DOMAIN workers :
              ( /\ last'.op = "onmessage" /\ last'.pid = p
                /\ Has(processes, p) /\ Has(tabs, processes[p].tabId)
                /\ Has(messageHandlers, last'.arg) )
              => Len(last'.calls) = 1 /\ last'.calls[1].type = last'.arg
        /\ \A p \in DOMAIN workers :
              ( /\ last'.op = "onerror" /\ last'.pid = p
                /\ Has(processes, p)
                /\ Has(messageHandlers, "processCrash") )
              => Len(last'.calls) = 1 /\ last'.calls[1].type = "processCrash"
      ]_vars

\* h2 was registered for processCrash over h1, and a crash has just been
\* reported to h2, while titleChange still has its handler h1
C20_Witness ==
    /\ last.op = "onerror"
    /\ Len(last.calls) = 1
    /\ last.calls[1].handler = "h2"
    /\ <<"processCrash", "h1">> \in replaced
    /\ Has(messageHandlers, "titleChange")
    /\ messageHandlers["titleChange"] = "h1"

\* the command a unit is about to handle
NextCommand(p) == Head(workers[p].inbox)

\* the unit after a command that it only takes from its queue
Discarded(p) == [workers[p] EXCEPT !.inbox = Tail(@)]

\* C22: a unit that handles a navigate, back, forward, refresh or shutdown
\* command whose tabId is not the unit's own tabId only takes it from the
\* queue: history, historyIndex and currentUrl stay, nothing is emitted and
\* no timer is set.
C22_ForeignCommandDiscarded ==
    [][ \A p \in DOMAIN workers :
          ( /\ last'.op = "receive" /\ last'.pid = p
            /\ NextCommand(p).type \in {"navigate", "back", "forward", "refresh", "shutdown"}
            /\ NextCommand(p).tabId # workers[p].tabId )
          => workers'[p] = Discarded(p)
      ]_vars

\* C23: in every unit, historyIndex is -1 exactly when the history is
\* empty, which is exactly when no navigate with a non-empty url has been
\* handled; otherwise 0 <= historyIndex <= history.length - 1.
C23_HistoryIndexInRange ==
    \A p \in DOMAIN workers :
        LET u == workers[p] IN
        /\ u.historyIndex = -1 <=> u.history = <<>>
        /\ u.history = <<>> <=> u.navCount = 0
        /\ u.historyIndex >= -1
        /\ u.historyIndex <= Len(u.history) - 1

\* a unit has just gone back from the second of its two entries to the
\* first
C23_Witness ==
    /\ last.op = "receive"
    /\ last.arg = "back"
    /\ ~last.noop
    /\ workers[last.pid].historyIndex = 0
    /\ Len(workers[last.pid].history) = 2

\* C26: handling navigate(u), u not empty, in a unit with history H and
\* index i leaves history = H[0..i] followed by u, historyIndex at the new
\* last entry and currentUrl = u.
C26_NavigateTruncates ==
    [][ \A p \in DOMAIN workers :
          ( /\ last'.op = "receive" /\ last'.pid = p
            /\ NextCommand(p).type = "navigate"
            /\ NextCommand(p).url # "" )
          => /\ workers'[p].history =
                    Append(SubSeq(workers[p].history, 1, workers[p].historyIndex + 1),
                           NextCommand(p).url)
             /\ workers'[p].historyIndex = Len(workers'[p].history) - 1
             /\ workers'[p].currentUrl = NextCommand(p).url
      ]_vars

\* a unit has just handled its third navigate after going back from the
\* second entry to the first: the second entry is gone
C26_Witness ==
    /\ last.op = "receive"
    /\ last.arg = "navigate"
    /\ workers[last.pid].navCount = 3
    /\ workers[last.pid].history = <<EX, "about:blank">>
    /\ workers[last.pid].historyIndex = 1

\* C27: handling a navigate command whose url is empty (or missing) only
\* takes it from the queue: nothing is emitted, no timer is set, and
\* history, historyIndex and currentUrl stay.
C27_EmptyUrlNoop ==
    [][ \A p \in DOMAIN workers :
          ( /\ last'.op = "receive" /\ last'.pid = p
            /\ NextCommand(p).type = "navigate"
            /\ NextCommand(p).url = "" )
          => workers'[p] = Discarded(p)
      ]_vars

\* a unit that has a page loaded has just handled a navigate with an empty
\* url
C27_Witness ==
    /\ last.op = "receive"
    /\ last.arg = "navigate"
    /\ last.noop
    /\ workers[last.pid].history # <<>>
    /\ workers[last.pid].outbox = <<>>

\* the events a unit emitted in the step just taken
Emitted(p) ==
    SubSeq(workers'[p].outbox, Len(workers[p].outbox) + 1, Len(workers'[p].outbox))

\* C28: a back command handled above index 0, and a forward command
\* handled below the last index, moves historyIndex by one, sets currentUrl
\* to the entry there and emits urlChange for it at once; the load that
\* follows emits loadStart, then titleChange and urlChange, then
\* loadComplete, as a navigate does.
C28_TraversalSequence ==
    [][ \A p \in DOMAIN workers :
          /\ ( /\ last'.op = "receive" /\ last'.pid = p /\ ~last'.noop
               /\ NextCommand(p).type \in {"back", "forward"} )
             => /\ workers'[p].historyIndex = workers[p].historyIndex +
                       (IF NextCommand(p).type = "back" THEN -1 ELSE 1)
                /\ workers'[p].history = workers[p].history
                /\ workers'[p].currentUrl =
                       workers[p].history[workers'[p].historyIndex + 1]
                /\ Emitted(p) # <<>>
                /\ Emitted(p)[1].type = "urlChange"
                /\ Emitted(p)[1].url = workers'[p].currentUrl
          /\ ( /\ last'.op = "timer100" /\ last'.pid = p
               /\ last'.id \in {"back", "forward"} )
             => LET log == Head(workers[p].timers100).log \o <<"loadComplete">>
                IN /\ log[2] = "urlChange"
                   /\ InOrder(SubSeq(log, 3, Len(log)))
                   /\ Range(SubSeq(log, 3, Len(log))) =
                         {"loadStart", "titleChange", "urlChange", "loadComplete"}
      ]_vars

\* C29: handling refresh leaves history, historyIndex and currentUrl; with
\* an empty currentUrl it only takes the command from the queue; otherwise
\* it emits nothing at once and the load it starts emits titleChange and
\* urlChange, then loadComplete, all for the currentUrl of the moment the
\* command was handled, and changes no history either.
C29_RefreshReplays ==
    [][ \A p \in DOMAIN workers :
          LET u == workers[p] IN
          /\ ( /\ last'.op = "receive" /\ last'.pid = p
               /\ NextCommand(p).type = "refresh" )
             => IF u.currentUrl = ""
                  THEN workers'[p] = Discarded(p)
                  ELSE workers'[p] = [Discarded(p) EXCEPT !.timers300 = Append(@,
                           [url |-> u.currentUrl, nav |-> 0, log |-> <<"refresh">>])]
          /\ ( /\ last'.op = "timer300" /\ last'.pid = p /\ last'.id = "refresh" )
             => LET t == Head(u.timers300)
                IN /\ [type |-> Emitted(p)[1].type, title |-> Emitted(p)[1].title] =
                         [type |-> "titleChange", title |-> extractTitleFromUrl(t.url)]
                   /\ [type |-> Emitted(p)[2].type, url |-> Emitted(p)[2].url] =
                         [type |-> "urlChange", url |-> t.url]
                   /\ Len(Emitted(p)) = 2
                   /\ <<workers'[p].history, workers'[p].historyIndex, workers'[p].currentUrl>>
                         = <<u.history, u.historyIndex, u.currentUrl>>
          /\ ( /\ last'.op = "timer100" /\ last'.pid = p /\ last'.id = "refresh" )
             => LET t == Head(u.timers100)
                IN /\ t.log = <<"refresh", "titleChange", "urlChange">>
                   /\ Len(Emitted(p)) = 1
                   /\ [type |-> Emitted(p)[1].type, url |-> Emitted(p)[1].url] =
                         [type |-> "loadComplete", url |-> t.url]
                   /\ <<workers'[p].history, workers'[p].historyIndex, workers'[p].currentUrl>>
                         = <<u.history, u.historyIndex, u.currentUrl>>
      ]_vars

\* the load of a refresh has just completed for the url that was current
\* when the refresh was handled, after the unit navigated somewhere else
C29_Witness ==
    /\ last.op = "timer100"
    /\ last.id = "refresh"
    /\ last.arg = EX
    /\ workers[last.pid].currentUrl = "about:blank"
    /\ workers[last.pid].history = <<EX, "about:blank">>

\* C30: the status of a registered entry never goes from ready to
\* initializing, nor from crashed or terminated to initializing or ready;
\* no entry stays in the registry as terminated; and the id of an entry
\* that was removed is never registered again.
C30_StatusLinear ==
    [][ /\ \A p \in DOMAIN processes \cap DOMAIN processes' :
              /\ processes[p].status = "ready" =>
                    processes'[p].status # "initializing"
              /\ processes[p].status \in {"crashed", "terminated"} =>
                    processes'[p].status \notin {"initializing", "ready"}
        /\ \A p \in DOMAIN processes' : processes'[p].status # "terminated"
        /\ \A p \in DOMAIN processes' \ DOMAIN processes : p \notin DOMAIN observed
      ]_vars

\* a unit that was ready has just been marked crashed, while the unit the
\* tab had before was terminated and is out of the registry
C30_Witness ==
    /\ last.op = "onerror"
    /\ ~last.noop
    /\ processes[last.pid].status = "crashed"
    /\ processes[last.pid].worker
    /\ \E q \in DOMAIN workers : ~Has(processes, q) /\ ~workers[q].alive

\* C21: ingesting a message whose type is none of the six event types
\* changes no Tab entry and no registry entry and invokes no handler,
\* whatever type strings the handlers are registered under; the handler map
\* and the messages that follow are left as they are.
C21_UnknownTypeDiscarded ==
    [][ \A p \in DOMAIN workers :
          ( /\ last'.op = "onmessage" /\ last'.pid = p
            /\ Head(workers[p].outbox).type \notin EventTypes )
          => /\ tabs' = tabs
             /\ processes' = processes
             /\ messageHandlers' = messageHandlers
             /\ workers' = [workers EXCEPT ![p].outbox = Tail(@)]
             /\ last'.calls = <<>>
      ]_vars


\* C24: the bridge never makes more than 10 connection attempts in a row
\* without a successful open in between, and once an attempt that was the
\* 10th in a row has failed, no attempt is in progress and no reconnect timer
\* is pending, ever.
C24_ReconnectBounded ==
    /\ bridge.streak <= maxReconnectAttempts
    /\ bridge.exhausted =>
           /\ ~bridge.reconnectTimer
           /\ bridge.socket = "none"

\* C25: the tab list of the Browser component, as of every render, holds at
\* least one tab.
C25_AtLeastOneTab == Len(browser.tabs) >= 1

\* C31: ingesting a loadStart, loadComplete or ready event leaves the Tab map
\* as it was.  The title of a Tab entry changes only when a titleChange is
\* ingested, its url only when a urlChange is ingested or in navigateTab for
\* its id (createTab puts a new entry in place), and the entry an event
\* changes is the one of the tab that owns the sending unit.
C31_FrameEffects ==
    [][ /\ \A p \in DOMAIN workers :
              ( /\ last'.op = "onmessage" /\ last'.pid = p
                /\ Head(workers[p].outbox).type \in {"loadStart", "loadComplete", "ready"} )
              => tabs' = tabs
        /\ \A id \in DOMAIN tabs \cap DOMAIN tabs' :
              tabs'[id].contentProcessId = tabs[id].contentProcessId =>
                  /\ tabs'[id].title # tabs[id].title =>
                        /\ last'.op = "onmessage" /\ last'.arg = "titleChange"
                        /\ Has(processes, last'.pid)
                        /\ processes[last'.pid].tabId = id
                  /\ tabs'[id].url # tabs[id].url =>
                        \/ /\ last'.op = "onmessage" /\ last'.arg = "urlChange"
                           /\ Has(processes, last'.pid)
                           /\ processes[last'.pid].tabId = id
                        \/ last'.op = "navigateTab" /\ last'.id = id
      ]_vars

\* with both tabs open, a titleChange has just given one tab its page's
\* title while the other tab still has the initial one
C31_Witness ==
    /\ last.op = "onmessage"
    /\ last.arg = "titleChange"
    /\ DOMAIN tabs = TabIds
    /\ Has(processes, last.pid)
    /\ tabs[processes[last.pid].tabId].title = "example.com"
    /\ \E id \in DOMAIN tabs : id # processes[last.pid].tabId /\ tabs[id].title = SENTINEL

\* C32: the title of a Tab entry changes only in a step that ingests a
\* titleChange sent by the unit the entry's contentProcessId names: no other
\* operation changes it, and no event of another unit does, a unit that an
\* earlier createTab made for the same id included.
C32_TitleFromOwnUnit ==
    [][ \A id \in DOMAIN tabs \cap DOMAIN tabs' :
          ( /\ tabs'[id].contentProcessId = tabs[id].contentProcessId
            /\ tabs'[id].title # tabs[id].title )
          => /\ last'.op = "onmessage"
             /\ last'.arg = "titleChange"
             /\ last'.pid = tabs[id].contentProcessId
      ]_vars

\* no command, timer or event of any unit made for the tab is outstanding
AtRest(tabId) ==
    \A q \in DOMAIN workers :
        workers[q].owner = tabId =>
            /\ workers[q].inbox = <<>>
            /\ workers[q].timers300 = <<>>
            /\ workers[q].timers100 = <<>>
            /\ workers[q].outbox = <<>>
            /\ workers[q].errors = 0

\* C33: whenever nothing is outstanding for a tab whose unit is running and
\* not crashed, the tab's url equals its unit's currentUrl, whatever
\* createTab(id, url), navigateTab (an empty url included), back, forward
\* and refresh calls came before.
C33_UrlAgreesAtRest ==
    \A id \in DOMAIN tabs :
        ( /\ Has(processes, UnitOf(id))
          /\ processes[UnitOf(id)].worker
          /\ processes[UnitOf(id)].status # "crashed"
          /\ workers[UnitOf(id)].alive
          /\ AtRest(id) )
        => tabs[id].url = workers[UnitOf(id)].currentUrl

\* C34: while navigateTab(id, u2), u2 not empty, is the newest command
\* issued on a tab (and the tab has had no other unit), the tab's url is u2: no event of a
\* navigation issued earlier, ingested later, puts the earlier url back.
C34_NoStaleUrl ==
    \A id \in DOMAIN tabs :
        LET s == IssuedOn(id)
            n == Len(s)
        IN ( /\ s[n].op = "navigateTab"
             /\ s[n].arg # ""
             /\ OwnedBy(id) = {UnitOf(id)}
             /\ \A q \in DOMAIN workers : workers[q].owner = id => q = UnitOf(id) )
           => tabs[id].url = s[n].arg

\* C35: once closeTab has terminated a tab's unit, the unit emits nothing
\* more (what it had scheduled is gone), and the ingestion of an event it
\* had emitted before changes no Tab entry -- not that of a tab opened again
\* under the same id either -- and no registry entry, and invokes no handler.
C35_ClosedUnitEventsDropped ==
    [][ \A p \in DOMAIN workers :
          ~workers[p].alive =>
              /\ \/ workers'[p].outbox = workers[p].outbox
                 \/ /\ workers[p].outbox # <<>>
                    /\ workers'[p].outbox = Tail(workers[p].outbox)
              /\ workers'[p].timers300 = <<>>
              /\ workers'[p].timers100 = <<>>
              /\ (last'.op = "onmessage" /\ last'.pid = p) =>
                    /\ tabs' = tabs
                    /\ processes' = processes
                    /\ last'.calls = <<>>
      ]_vars

\* the titleChange of a closed tab's unit has just been ingested while a tab
\* opened again under the same id is in the Tab map and titleChange has a
\* handler
C35_Witness ==
    /\ last.op = "onmessage"
    /\ last.arg = "titleChange"
    /\ ~workers[last.pid].alive
    /\ ~Has(processes, last.pid)
    /\ Has(tabs, workers[last.pid].owner)
    /\ tabs[workers[last.pid].owner].title = SENTINEL
    /\ Has(messageHandlers, "titleChange")

\* C36: while a unit's registry entry is crashed, ingesting an event of that
\* unit leaves the Tab map as it was, and no step adds a command to the
\* unit's queue.
C36_CrashedUnitIgnored ==
    [][ \A p \in DOMAIN processes :
          processes[p].status = "crashed" =>
              /\ (last'.op = "onmessage" /\ last'.pid = p) => tabs' = tabs
              /\ (Has(workers, p) /\ Has(workers', p)) =>
                    Len(workers'[p].inbox) <= Len(workers[p].inbox)
      ]_vars

\* C37: when the spawn fails inside createTab, createTab still returns and
\* stores the tab, and the registry gets an entry for it with status crashed
\* and no worker handle; no handler is invoked, so no processCrash is
\* delivered for the failure.  Every later navigateTab and
\* sendNavigationCommand on the tab adds nothing to any queue, leaves the
\* registry, invokes no handler and raises no error, and navigateTab still
\* sets the tab's url.
C37_SpawnFailureContained ==
    [][ /\ (last'.op = "createTab" /\ ~Has(workers', last'.pid)) =>
              /\ ~last'.threw
              /\ last'.calls = <<>>
              /\ Has(tabs', last'.id)
              /\ tabs'[last'.id] = [id |-> last'.id, title |-> SENTINEL,
                                    url |-> last'.arg, contentProcessId |-> last'.pid]
              /\ Has(processes', last'.pid)
              /\ processes'[last'.pid] = [id |-> last'.pid, status |-> "crashed",
                                          tabId |-> last'.id, worker |-> FALSE]
              /\ workers' = workers
        /\ \A id \in DOMAIN tabs :
              ( /\ last'.op \in {"navigateTab", "back", "forward", "refresh"}
                /\ last'.id = id
                /\ ~Has(workers, UnitOf(id)) )
              => /\ ~last'.threw
                 /\ last'.calls = <<>>
                 /\ workers' = workers
                 /\ processes' = processes
                 /\ tabs' = IF last'.op = "navigateTab"
                              THEN [tabs EXCEPT ![id].url = last'.arg]
                              ELSE tabs
        /\ \A i \in 1..Len(last'.calls) :
              last'.calls[i].type = "processCrash" =>
                  Has(workers, last'.calls[i].processId)
      ]_vars

\* navigateTab has just set the url of a tab whose spawn had failed, while a
\* processCrash handler is registered
C37_Witness ==
    /\ last.op = "navigateTab"
    /\ ~last.noop
    /\ last.arg = EX
    /\ ~Has(workers, UnitOf(last.id))
    /\ processes[UnitOf(last.id)].status = "crashed"
    /\ tabs[last.id].url = EX
    /\ Has(messageHandlers, "processCrash")

\* C38: shutdown() leaves the Tab map, the Process Registry and the handler
\* map empty and every unit that was registered terminated, with nothing
\* queued or scheduled in it; and ingesting an event of a unit that is no
\* longer registered changes no Tab, registry or handler entry and invokes
\* no handler -- also after new tabs were opened and handlers registered.
C38_ShutdownClears ==
    [][ /\ last'.op = "shutdown" =>
              /\ tabs' = EmptyMap
              /\ processes' = EmptyMap
              /\ messageHandlers' = EmptyMap
              /\ DOMAIN workers' = DOMAIN workers
              /\ \A p \in DOMAIN processes :
                    Has(workers, p) =>
                        /\ ~workers'[p].alive
                        /\ workers'[p].inbox = <<>>
                        /\ workers'[p].timers300 = <<>>
                        /\ workers'[p].timers100 = <<>>
        /\ \A p \in DOMAIN workers :
              (last'.op = "onmessage" /\ last'.pid = p /\ ~Has(processes, p)) =>
                  /\ tabs' = tabs
                  /\ processes' = processes
                  /\ messageHandlers' = messageHandlers
                  /\ last'.calls = <<>>
      ]_vars

\* after a shutdown, a handler was registered and a tab opened again, and
\* the titleChange a unit had emitted before the shutdown has just been
\* ingested
C38_Witness ==
    /\ last.op = "onmessage"
    /\ last.arg = "titleChange"
    /\ last.pid = 1
    /\ ~workers[1].alive
    /\ DOMAIN processes = {2}
    /\ Has(tabs, "1")
    /\ tabs["1"].title = SENTINEL
    /\ Has(messageHandlers, "titleChange")
    /\ messageHandlers["titleChange"] = "h2"

\* C39: once disconnect() has been called, whatever the bridge was doing, no
\* reconnect timer is ever pending again and no socket is ever connecting or
\* open again.
C39_DisconnectFinal ==
    bridge.disconnects > 0 =>
        /\ ~bridge.reconnectTimer
        /\ bridge.socket \in {"none", "CLOSED"}

====
